---------------------------- MODULE Spec2Model ----------------------------
(***************************************************************************)
(* A model of the WRP message validators of wrp-go: the locator grammar,   *)
(* the message type validator, the spans validator, validator chains, the  *)
(* telemetry wrappers and the wrpendpoint adapter.                         *)
(*                                                                         *)
(* Strings are sequences of one-character strings, so that matching,       *)
(* filtering and integer parsing are computed character by character.      *)
(***************************************************************************)
EXTENDS Integers, Sequences, FiniteSets, TLC

VARIABLES
    locator,    \* the locator string handed to validateLocator
    verdict,    \* the error validateLocator returned for it ("pending" before)
    edits,      \* how many edits the caller has applied to the locator
    msg,        \* the decoded message handed to the validators
    outcome,    \* the last validation call: who ran, and the errors it returned
    arrays,     \* the backing arrays of the Validators slices built so far
    held,       \* the Validators values callers hold, with how each was built
    wrappers,   \* the telemetry-wrapped validators constructed so far
    counter,    \* per wrapper and label set, the value of its failure counter
    callers,    \* the validation calls in progress, one record per caller
    failedCalls,\* per wrapper and label set, the calls whose wrapped validator failed
    service,    \* what the service (or endpoint) under test is set up to return
    served,     \* the calls the service and the endpoint under test received
    reply       \* what the last call through the adapter returned

locVars   == <<locator, verdict, edits>>
msgVars   == <<msg, outcome>>
chainVars == <<arrays, held>>
telVars   == <<wrappers, counter, callers, failedCalls>>
epVars    == <<service, served, reply>>

vars == <<locVars, msgVars, chainVars, telVars, epVars>>

(***************************************************************************)
(* Characters and strings                                                  *)
(***************************************************************************)

\* unicode.ToLower / strings.ToLower on the ASCII letters the model uses.
UpperToLower ==
    ("A" :> "a") @@ ("B" :> "b") @@ ("C" :> "c") @@ ("D" :> "d") @@
    ("E" :> "e") @@ ("F" :> "f") @@ ("G" :> "g") @@ ("I" :> "i") @@
    ("L" :> "l") @@ ("M" :> "m") @@ ("N" :> "n") @@ ("R" :> "r") @@
    ("S" :> "s") @@ ("T" :> "t") @@ ("U" :> "u") @@ ("V" :> "v")

ToLower(c) == IF c \in DOMAIN UpperToLower THEN UpperToLower[c] ELSE c

ToUpper(c) ==
    IF \E u \in DOMAIN UpperToLower : UpperToLower[u] = c
    THEN CHOOSE u \in DOMAIN UpperToLower : UpperToLower[u] = c
    ELSE c

StringToLower(s) == [i \in 1..Len(s) |-> ToLower(s[i])]

\* The characters of a sequence, as a set.
Range(s) == {s[i] : i \in 1..Len(s)}

(***************************************************************************)
(* Errors.  An error value records its kind (the sentinel it wraps), the   *)
(* text it quotes and the kind of the error it wraps; a span error also    *)
(* records the span and the field name it prints.  index is bookkeeping:   *)
(* the position in Spans of the span a span error is about (0 otherwise).  *)
(***************************************************************************)

Error(kind, text, cause) ==
    [kind |-> kind, text |-> text, cause |-> cause, span |-> <<>>, field |-> "", index |-> 0]

Nil == Error("nil", <<>>, "nil")

errInvalidUUID           == Error("errInvalidUUID", <<>>, "nil")
errEmptyAuthority        == Error("errEmptyAuthority", <<>>, "nil")
errInvalidMacLength      == Error("errInvalidMacLength", <<>>, "nil")
errInvalidLocatorPattern == Error("errInvalidLocatorPattern", <<>>, "nil")
ErrorInvalidMessageType  == Error("ErrorInvalidMessageType", <<>>, "nil")

\* fmt.Errorf("%w: %v", errInvalidCharacter, strconv.QuoteRune(r))
errInvalidCharacter(r) == Error("errInvalidCharacter", <<r>>, "nil")

(***************************************************************************)
(* The locator grammar                                                     *)
(***************************************************************************)

serialPrefix == <<"s", "e", "r", "i", "a", "l">>
uuidPrefix   == <<"u", "u", "i", "d">>
eventPrefix  == <<"e", "v", "e", "n", "t">>
dnsPrefix    == <<"d", "n", "s">>
macPrefix    == <<"m", "a", "c">>

hexDigits ==
    {"0", "1", "2", "3", "4", "5", "6", "7", "8", "9",
     "a", "b", "c", "d", "e", "f", "A", "B", "C", "D", "E", "F"}

macDelimiters == {":", "-", "."}

macLength == 12

\* The alternatives of the scheme group, in the order the pattern lists them.
SchemeAlternatives == <<macPrefix, uuidPrefix, eventPrefix, dnsPrefix, serialPrefix>>

\* One scheme alternative followed by ':' matches at the start of l; the
\* (?i) flag makes the comparison case-insensitive.
SchemeMatchesNoFold(l, p) ==
    /\ Len(l) > Len(p)
    /\ \A i \in 1..Len(p) : l[i] = p[i]
    /\ l[Len(p) + 1] = ":"

SchemeMatches(l, p) ==
    /\ Len(l) > Len(p)
    /\ \A i \in 1..Len(p) : ToLower(l[i]) = p[i]
    /\ l[Len(p) + 1] = ":"

\* [^/]+ is greedy: the longest run of characters other than '/'.
AuthorityEnd(l, from) ==
    LET stops == {i \in from..Len(l) : l[i] = "/"}
    IN  IF stops = {} THEN Len(l)
        ELSE (CHOOSE i \in stops : \A j \in stops : i <= j) - 1

NoMatch == [matched |-> FALSE, scheme |-> <<>>, authority |-> <<>>]

\* locatorPattern.FindStringSubmatch(l): the scheme and authority groups of
\* the leftmost-first match, or NoMatch.
locatorPattern(l) ==
    LET alts == {k \in 1..Len(SchemeAlternatives) : SchemeMatches(l, SchemeAlternatives[k])}
    IN  IF alts = {} THEN NoMatch
        ELSE LET k    == CHOOSE a \in alts : \A b \in alts : a <= b
                 n    == Len(SchemeAlternatives[k])
                 last == AuthorityEnd(l, n + 2)
             IN  [matched   |-> TRUE,
                  scheme    |-> SubSeq(l, 1, n),
                  authority |-> SubSeq(l, n + 2, last)]

\* The strings.Map call of the mac case: hex digits are lower-cased and kept,
\* delimiters and all other characters are dropped.
MacFilter(idPart) ==
    StringToLower(SelectSeq(idPart, LAMBDA r : r \in hexDigits))

\* The invalidCharacter variable after the strings.Map call: the last
\* character that is neither a hex digit nor a delimiter, "" for -1.
MacInvalidCharacter(idPart) ==
    LET bad == {i \in 1..Len(idPart) : idPart[i] \notin hexDigits \cup macDelimiters}
    IN  IF bad = {} THEN ""
        ELSE idPart[CHOOSE i \in bad : \A j \in bad : j <= i]

\* The mac case of validateLocator.
ValidateMacLengthFirst(idPart) ==
    IF Len(MacFilter(idPart)) # macLength THEN errInvalidMacLength
    ELSE IF MacInvalidCharacter(idPart) # ""
         THEN errInvalidCharacter(MacInvalidCharacter(idPart))
         ELSE Nil

ValidateMac(idPart) ==
    IF MacInvalidCharacter(idPart) # ""
    THEN errInvalidCharacter(MacInvalidCharacter(idPart))
    ELSE IF Len(MacFilter(idPart)) # macLength THEN errInvalidMacLength
         ELSE Nil

\* uuid.Parse accepts the 36-character form xxxxxxxx-xxxx-xxxx-xxxx-xxxxxxxxxxxx,
\* the same after a urn:uuid: prefix or with one more character on each side
\* (the braces, which it does not look at), and 32 hex digits.
UuidHyphens == {9, 14, 19, 24}

UuidCanonical(s) ==
    /\ Len(s) = 36
    /\ \A i \in 1..36 : IF i \in UuidHyphens THEN s[i] = "-" ELSE s[i] \in hexDigits

UuidUrnPrefix == <<"u", "r", "n", ":", "u", "u", "i", "d", ":">>

UuidParseOk(s) ==
    \/ UuidCanonical(s)
    \/ /\ Len(s) = 36 + 9
       /\ StringToLower(SubSeq(s, 1, 9)) = UuidUrnPrefix
       /\ UuidCanonical(SubSeq(s, 10, Len(s)))
    \/ /\ Len(s) = 36 + 2
       /\ UuidCanonical(SubSeq(s, 2, 37))
    \/ /\ Len(s) = 32
       /\ \A i \in 1..32 : s[i] \in hexDigits

ValidateUuid(idPart) ==
    IF UuidParseOk(idPart) THEN Nil ELSE errInvalidUUID

validateLocator(l) ==
    LET match == locatorPattern(l)
    IN  IF ~match.matched THEN errInvalidLocatorPattern
        ELSE IF Len(match.authority) = 0 THEN errEmptyAuthority
        ELSE IF StringToLower(match.scheme) = macPrefix THEN ValidateMac(match.authority)
        ELSE IF StringToLower(match.scheme) = uuidPrefix THEN ValidateUuid(match.authority)
        ELSE Nil

(***************************************************************************)
(* Locators under validation                                               *)
(***************************************************************************)

Pending == Error("pending", <<>>, "nil")

MaxEdits == 2

\* Where the authority of a locator with a three-letter scheme starts, and
\* where it ends (before the first '/', or at the end of the string).
AuthorityStart == Len(macPrefix) + 2

MacAuthorityLast(l) == AuthorityEnd(l, AuthorityStart)

MacSeeds ==
    { <<"m", "a", "c", ":", "0", "1", "2", "3", "4", "5", "6", "7", "8", "9", "a", "B">>,
      <<"M", "a", "C", ":", "0", "1", "2", "3", ".", "4", "5", "6", "7", ".", "8", "9", "A", "b",
        "/", "s", "v", "c">> }

InsertAt(l, i, c) == SubSeq(l, 1, i - 1) \o <<c>> \o SubSeq(l, i, Len(l))

RemoveAt(l, i) == SubSeq(l, 1, i - 1) \o SubSeq(l, i + 1, Len(l))

InvalidCharacters == {"g"}

\* The caller changes the case of one hex digit of the authority.
ToggleCase(i) ==
    /\ verdict = Pending /\ edits < MaxEdits
    /\ i \in AuthorityStart..MacAuthorityLast(locator)
    /\ locator[i] \in hexDigits
    /\ ToLower(locator[i]) # ToUpper(locator[i])
    /\ locator' = [locator EXCEPT ![i] = IF @ = ToLower(@) THEN ToUpper(@) ELSE ToLower(@)]
    /\ edits' = edits + 1
    /\ UNCHANGED <<verdict, msgVars, chainVars, telVars, epVars>>

\* The caller inserts a delimiter before position i of the authority (or at its end).
InsertDelimiter(i, d) ==
    /\ verdict = Pending /\ edits < MaxEdits
    /\ i \in AuthorityStart..(MacAuthorityLast(locator) + 1)
    /\ locator' = InsertAt(locator, i, d)
    /\ edits' = edits + 1
    /\ UNCHANGED <<verdict, msgVars, chainVars, telVars, epVars>>

\* The caller removes a delimiter of the authority.
RemoveDelimiter(i) ==
    /\ verdict = Pending /\ edits < MaxEdits
    /\ i \in AuthorityStart..MacAuthorityLast(locator)
    /\ locator[i] \in macDelimiters
    /\ locator' = RemoveAt(locator, i)
    /\ edits' = edits + 1
    /\ UNCHANGED <<verdict, msgVars, chainVars, telVars, epVars>>

\* The caller inserts a character that is neither a hex digit nor a delimiter.
InsertInvalid(i, c) ==
    /\ verdict = Pending /\ edits < MaxEdits
    /\ i \in AuthorityStart..(MacAuthorityLast(locator) + 1)
    /\ locator' = InsertAt(locator, i, c)
    /\ edits' = edits + 1
    /\ UNCHANGED <<verdict, msgVars, chainVars, telVars, epVars>>

\* The caller changes the number of hex digits: one more at the end of the
\* authority, or one removed.
AppendHexDigit(h) ==
    /\ verdict = Pending /\ edits < MaxEdits
    /\ locator' = InsertAt(locator, MacAuthorityLast(locator) + 1, h)
    /\ edits' = edits + 1
    /\ UNCHANGED <<verdict, msgVars, chainVars, telVars, epVars>>

RemoveHexDigit(i) ==
    /\ verdict = Pending /\ edits < MaxEdits
    /\ i \in AuthorityStart..MacAuthorityLast(locator)
    /\ locator[i] \in hexDigits
    /\ locator' = RemoveAt(locator, i)
    /\ edits' = edits + 1
    /\ UNCHANGED <<verdict, msgVars, chainVars, telVars, epVars>>

\* SourceValidator / DestinationValidator hand the locator to validateLocator.
ValidateLocator ==
    /\ verdict = Pending
    /\ verdict' = validateLocator(locator)
    /\ UNCHANGED <<locator, edits, msgVars, chainVars, telVars, epVars>>

MacNext ==
    \/ \E i \in 1..Len(locator) : ToggleCase(i)
    \/ \E i \in 1..(Len(locator) + 1), d \in macDelimiters : InsertDelimiter(i, d)
    \/ \E i \in 1..Len(locator) : RemoveDelimiter(i)
    \/ \E i \in 1..(Len(locator) + 1), c \in InvalidCharacters : InsertInvalid(i, c)
    \/ \E h \in {"7", "E"} : AppendHexDigit(h)
    \/ \E i \in 1..Len(locator) : RemoveHexDigit(i)
    \/ ValidateLocator

\* Locators of every shape: a scheme text, with or without the colon, an
\* authority and what follows it.
SchemeTexts ==
    { <<"m", "a", "c">>, <<"M", "A", "C">>, <<"u", "u", "i", "d">>,
      <<"s", "e", "r", "i", "a", "l">>, <<"S", "e", "r", "i", "a", "L">>,
      <<"e", "v", "e", "n", "t">>, <<"E", "V", "E", "N", "T">>,
      <<"d", "n", "s">>, <<"D", "n", "S">>,
      <<"b", "o", "g", "u", "s">>, <<"m", "a">>, <<"x", "d", "n", "s">>, <<>> }

AuthorityTexts ==
    { <<>>, <<"x">>, <<"i", "o", "t">>, <<"g", ":", "1">>,
      <<"0", "1", "2", "3", "4", "5", "6", "7", "8", "9", "a", "B">>,
      <<"0", "1", "2", "3", "4", "5", "6", "7", "8", "9", "a", "b", "c", "d", "e", "f",
        "0", "1", "2", "3", "4", "5", "6", "7", "8", "9", "A", "B", "C", "D", "E", "F">> }

PathTexts == { <<>>, <<"/">>, <<"/", "s", "v", "c", "/", "x">> }

LocatorTexts ==
    { s \o c \o a \o p :
        s \in SchemeTexts, c \in {<<>>, <<":">>}, a \in AuthorityTexts, p \in PathTexts }

LocatorNext == ValidateLocator

(***************************************************************************)
(* Properties of the locator grammar                                       *)
(***************************************************************************)

MacAuthority(l) == SubSeq(l, AuthorityStart, MacAuthorityLast(l))

HexDigitCount(a) == Cardinality({i \in 1..Len(a) : a[i] \in hexDigits})

OnlyHexAndDelimiters(a) == \A i \in 1..Len(a) : a[i] \in hexDigits \cup {":", "-", "."}

\* C6: a mac locator passes whenever its authority holds only hex digits (of
\* either case) and delimiters and exactly 12 hex digits, wherever the
\* delimiters stand; an authority with any other character fails with the
\* invalid-character error, also when the digit count is wrong; an authority
\* of hex digits and delimiters with another digit count fails with the
\* invalid-mac-length error.
C6_MacVerdict ==
    verdict # Pending =>
        LET a == MacAuthority(locator)
        IN  /\ (OnlyHexAndDelimiters(a) /\ HexDigitCount(a) = macLength) => verdict = Nil
            /\ ~OnlyHexAndDelimiters(a) => verdict.kind = "errInvalidCharacter"
            /\ (OnlyHexAndDelimiters(a) /\ HexDigitCount(a) # macLength)
                  => verdict = errInvalidMacLength

\* A mac locator that passes after its case and its delimiters were changed.
C6_Witness ==
    /\ verdict = Nil
    /\ edits >= 2
    /\ locator \notin MacSeeds
    /\ HexDigitCount(MacAuthority(locator)) = macLength

ClaimSchemes == {macPrefix, uuidPrefix, serialPrefix, eventPrefix, dnsPrefix}

StartsWithScheme(l, p) ==
    /\ Len(l) >= Len(p) + 1
    /\ StringToLower(SubSeq(l, 1, Len(p))) = p
    /\ l[Len(p) + 1] = ":"

AfterColon(l, p) == SubSeq(l, Len(p) + 2, Len(l))

\* The locator without everything from its first '/' on.
WithoutPath(l) ==
    IF \E i \in 1..Len(l) : l[i] = "/"
    THEN SubSeq(l, 1, (CHOOSE i \in 1..Len(l) : l[i] = "/" /\ \A j \in 1..(i - 1) : l[j] # "/") - 1)
    ELSE l

\* C7: a locator that does not start with a scheme (in any case) and ':'
\* fails with the invalid-locator-pattern error; one with a scheme, ':' and
\* then nothing or a '/' fails with the empty-authority error; a serial,
\* event or dns locator with a non-empty authority passes; and the verdict is
\* that of the locator cut at its first '/'.
C7_LocatorClassified ==
    verdict # Pending =>
        /\ (\A p \in ClaimSchemes : ~StartsWithScheme(locator, p))
              => verdict = errInvalidLocatorPattern
        /\ \A p \in ClaimSchemes :
              StartsWithScheme(locator, p) =>
                 LET rest == AfterColon(locator, p)
                     empty == rest = <<>> \/ rest[1] = "/"
                 IN  /\ empty => verdict = errEmptyAuthority
                     /\ (~empty /\ p \in {serialPrefix, eventPrefix, dnsPrefix}) => verdict = Nil
        /\ verdict = validateLocator(WithoutPath(locator))

\* An upper-case scheme whose authority is empty because a '/' follows the colon.
C7_Witness ==
    /\ verdict = errEmptyAuthority
    /\ StartsWithScheme(locator, eventPrefix)
    /\ locator[1] = "E"
    /\ Len(locator) > Len(eventPrefix) + 1
    /\ locator[Len(eventPrefix) + 2] = "/"

(***************************************************************************)
(* Messages and the field validators                                       *)
(***************************************************************************)

Invalid0MessageType == 0
Invalid1MessageType == 1
SimpleRequestResponseMessageType == 3
SimpleEventMessageType == 4
lastMessageType == 12

ErrorInvalidMessageEncoding(cause) == Error("ErrorInvalidMessageEncoding", <<>>, cause.kind)
ErrorInvalidSource(l, cause)       == Error("ErrorInvalidSource", l, cause.kind)
ErrorInvalidDestination(l, cause)  == Error("ErrorInvalidDestination", l, cause.kind)

\* A validator's return value is the list of errors in it: <<>> for nil, one
\* error, or the errors of a multierr value.
Errors(err) == IF err = Nil THEN <<>> ELSE <<err>>

\* A byte that is not part of any UTF-8 encoding.
InvalidByte == "\\xff"

\* UTF8(m): an error when a string field of the message is not valid UTF-8.
UTF8(m) ==
    IF \E f \in {m.Source, m.Destination, m.ContentType} : InvalidByte \in Range(f)
    THEN Error("ErrNotUTF8", <<>>, "nil")
    ELSE Nil

UTF8Validator(m) ==
    IF UTF8(m) # Nil THEN ErrorInvalidMessageEncoding(UTF8(m)) ELSE Nil

MessageTypeValidatorRangeOnly(m) ==
    IF m.Type < Invalid0MessageType \/ m.Type > lastMessageType
    THEN ErrorInvalidMessageType
    ELSE Nil

MessageTypeValidator(m) ==
    IF m.Type < Invalid0MessageType \/ m.Type > lastMessageType
    THEN ErrorInvalidMessageType
    ELSE IF m.Type \in {Invalid0MessageType, Invalid1MessageType, lastMessageType}
         THEN ErrorInvalidMessageType
         ELSE Nil

SourceValidator(m) ==
    IF validateLocator(m.Source) # Nil
    THEN ErrorInvalidSource(m.Source, validateLocator(m.Source))
    ELSE Nil

DestinationValidator(m) ==
    IF validateLocator(m.Destination) # Nil
    THEN ErrorInvalidDestination(m.Destination, validateLocator(m.Destination))
    ELSE Nil

SimpleResponseRequestTypeValidator(m) ==
    IF m.Type # SimpleRequestResponseMessageType
    THEN Error("ErrorNotSimpleResponseRequestType", <<>>, "nil")
    ELSE Nil

SimpleEventTypeValidator(m) ==
    IF m.Type # SimpleEventMessageType
    THEN Error("ErrorNotSimpleEventType", <<>>, "nil")
    ELSE Nil

(***************************************************************************)
(* The spans validator                                                     *)
(***************************************************************************)

spanFormat ==
    (0 :> "parent") @@ (1 :> "name") @@ (2 :> "start time") @@
    (3 :> "duration") @@ (4 :> "status")

\* The orders in which a range over the spanFormat map may visit its keys.
Orders ==
    {o \in [1..Cardinality(DOMAIN spanFormat) -> DOMAIN spanFormat] :
        \A a, b \in DOMAIN o : a # b => o[a] # o[b]}

Digits == {"0", "1", "2", "3", "4", "5", "6", "7", "8", "9"}

DigitOrder == <<"0", "1", "2", "3", "4", "5", "6", "7", "8", "9">>

DigitValue(d) == CHOOSE v \in 0..9 : DigitOrder[v + 1] = d

\* The digits of 1<<63, the cutoff of a 64-bit int.
IntCutoff ==
    <<"9", "2", "2", "3", "3", "7", "2", "0", "3", "6", "8", "5", "4", "7", "7", "5", "8", "0", "8">>

RECURSIVE StripZeros(_)
StripZeros(ds) ==
    IF Len(ds) > 1 /\ ds[1] = "0" THEN StripZeros(Tail(ds)) ELSE ds

\* a < b for two digit strings without leading zeros.
DigitsLess(a, b) ==
    \/ Len(a) < Len(b)
    \/ /\ Len(a) = Len(b)
       /\ \E i \in 1..Len(a) :
            /\ DigitValue(a[i]) < DigitValue(b[i])
            /\ \A j \in 1..(i - 1) : a[j] = b[j]

\* strconv.Atoi(s): "nil" when s is an optional sign and then digits of a
\* value an int holds, else the error it returns.
Atoi(s) ==
    LET signed == Len(s) > 0 /\ s[1] \in {"+", "-"}
        ds     == IF signed THEN Tail(s) ELSE s
    IN  IF Len(ds) = 0 \/ \E i \in 1..Len(ds) : ds[i] \notin Digits
        THEN "ErrSyntax"
        ELSE IF \/ DigitsLess(StripZeros(ds), IntCutoff)
                \/ (signed /\ s[1] = "-" /\ StripZeros(ds) = IntCutoff)
             THEN "nil"
             ELSE "ErrRange"

ErrorInvalidSpanLength(k) ==
    [Error("ErrorInvalidSpanLength", <<>>, "nil") EXCEPT !.index = k]

\* fmt.Errorf("%w %v: invalid %v component '%v'", ErrorInvalidSpanFormat, s, j, s[i])
ErrorInvalidSpanFormat(k, s, j, v, cause) ==
    [Error("ErrorInvalidSpanFormat", v, cause) EXCEPT !.span = s, !.field = j, !.index = k]

\* The body of the inner loop for key i of spanFormat, on span s (the k-th):
\* the errors it appends.
SpanFieldEveryFieldNonEmpty(k, s, i) ==
    IF Len(s[i + 1]) = 0
    THEN <<ErrorInvalidSpanFormat(k, s, spanFormat[i], s[i + 1], "nil")>>
    ELSE <<>>

SpanField(k, s, i) ==
    LET j == spanFormat[i]
    IN  IF j \in {"parent", "name"}
        THEN IF Len(s[i + 1]) = 0
             THEN <<ErrorInvalidSpanFormat(k, s, j, s[i + 1], "nil")>>
             ELSE <<>>
        ELSE IF j \in {"start time", "duration", "status"}
        THEN IF Atoi(s[i + 1]) # "nil"
             THEN <<ErrorInvalidSpanFormat(k, s, j, s[i + 1], Atoi(s[i + 1]))>>
             ELSE <<>>
        ELSE <<>>

RECURSIVE SpanFields(_, _, _)
SpanFields(k, s, order) ==
    IF order = <<>> THEN <<>>
    ELSE SpanField(k, s, Head(order)) \o SpanFields(k, s, Tail(order))

\* The body of the outer loop for span s, the k-th of Spans: the lists of
\* errors it may append, one per order of the inner loop.
SpanChecksFieldsAnyway(k, s) ==
    IF Len(s) # Cardinality(DOMAIN spanFormat)
    THEN {<<ErrorInvalidSpanLength(k)>> \o SpanFields(k, s \o <<<<>>, <<>>, <<>>, <<>>, <<>>>>, o) :
            o \in Orders}
    ELSE {SpanFields(k, s, o) : o \in Orders}

Span(k, s) ==
    IF Len(s) # Cardinality(DOMAIN spanFormat)
    THEN {<<ErrorInvalidSpanLength(k)>>}
    ELSE {SpanFields(k, s, o) : o \in Orders}

RECURSIVE SpansUpTo(_, _)
SpansUpTo(spans, n) ==
    IF n = 0 THEN {<<>>}
    ELSE {a \o b : a \in SpansUpTo(spans, n - 1), b \in Span(n, spans[n])}

\* SpansValidator(m): the error lists it may return (<<>> is nil).
SpansValidator(m) == SpansUpTo(m.Spans, Len(m.Spans))

(***************************************************************************)
(* Validator chains                                                        *)
(***************************************************************************)

\* The error lists member v may return for message m.
Member(v, m) ==
    CASE v = "UTF8Validator"        -> {Errors(UTF8Validator(m))}
      [] v = "MessageTypeValidator" -> {Errors(MessageTypeValidator(m))}
      [] v = "SourceValidator"      -> {Errors(SourceValidator(m))}
      [] v = "DestinationValidator" -> {Errors(DestinationValidator(m))}
      [] v = "SimpleResponseRequestTypeValidator"
                                    -> {Errors(SimpleResponseRequestTypeValidator(m))}
      [] v = "SimpleEventTypeValidator"
                                    -> {Errors(SimpleEventTypeValidator(m))}
      [] v = "SpansValidator"       -> SpansValidator(m)

SpecValidatorsWithoutSource ==
    <<"UTF8Validator", "MessageTypeValidator", "DestinationValidator">>

SpecValidators ==
    <<"UTF8Validator", "MessageTypeValidator", "SourceValidator", "DestinationValidator">>

\* Validators.Validate: every member runs, in order, and the errors of all
\* of them are appended to one combined error.
RECURSIVE Validate(_, _)
Validate(vs, m) ==
    IF vs = <<>> THEN {<<>>}
    ELSE {a \o b : a \in Validate(SubSeq(vs, 1, Len(vs) - 1), m),
                   b \in Member(vs[Len(vs)], m)}

(***************************************************************************)
(* Validation calls on one message                                         *)
(***************************************************************************)

NotRun == [by |-> "none", errs |-> <<>>]

bogus == <<"b", "o", "g", "u", "s">>

SourceTexts ==
    { bogus,
      <<"m", "a", "c", ":", "A", "A", ":", "B", "B", ":", "C", "C", ":", "D", "D", ":",
        "E", "E", ":", "F", "F">>,
      <<"m", "a", "c", ":", "g", "1">>,
      <<"d", "n", "s", ":", "x", InvalidByte>> }

DestinationTexts ==
    { <<"e", "v", "e", "n", "t", ":", "i", "o", "t">>,
      <<"d", "n", "s", ":">>,
      <<"u", "u", "i", "d", ":", "x", "/", "y">> }

TypeValues == (Invalid0MessageType - 1)..(lastMessageType + 1)

Messages ==
    [Type : TypeValues, Source : SourceTexts, Destination : DestinationTexts,
     ContentType : {<<>>, <<"j", InvalidByte>>}, Spans : {<<>>}]

CallUTF8Validator ==
    /\ outcome = NotRun
    /\ outcome' = [by |-> "UTF8Validator", errs |-> Errors(UTF8Validator(msg))]
    /\ UNCHANGED <<msg, locVars, chainVars, telVars, epVars>>

CallMessageTypeValidator ==
    /\ outcome = NotRun
    /\ outcome' = [by |-> "MessageTypeValidator", errs |-> Errors(MessageTypeValidator(msg))]
    /\ UNCHANGED <<msg, locVars, chainVars, telVars, epVars>>

CallSourceValidator ==
    /\ outcome = NotRun
    /\ outcome' = [by |-> "SourceValidator", errs |-> Errors(SourceValidator(msg))]
    /\ UNCHANGED <<msg, locVars, chainVars, telVars, epVars>>

CallDestinationValidator ==
    /\ outcome = NotRun
    /\ outcome' = [by |-> "DestinationValidator", errs |-> Errors(DestinationValidator(msg))]
    /\ UNCHANGED <<msg, locVars, chainVars, telVars, epVars>>

\* SpecValidators().Validate(msg)
CallSpecValidators ==
    /\ outcome = NotRun
    /\ \E errs \in Validate(SpecValidators, msg) :
          outcome' = [by |-> "SpecValidators", errs |-> errs]
    /\ UNCHANGED <<msg, locVars, chainVars, telVars, epVars>>

\* SpansValidator(msg)
CallSpansValidator ==
    /\ outcome = NotRun
    /\ \E errs \in SpansValidator(msg) :
          outcome' = [by |-> "SpansValidator", errs |-> errs]
    /\ UNCHANGED <<msg, locVars, chainVars, telVars, epVars>>

MaxSpans == 2

root == <<"r", "o", "o", "t">>
op   == <<"o", "p">>

SpanPool ==
    { <<root, op, <<"1", "0", "0">>, <<"5", "0">>, <<"0">>>>,
      <<root, op, <<"a", "b", "c">>, <<"5", "0">>, <<"0">>>>,
      <<<<>>, op, <<"-", "3">>, <<"+", "7">>, <<"0", "0">>>>,
      <<root, <<>>, <<"1", "0", "0">>, <<"1", "a">>, <<>>>>,
      <<<<>>, <<>>, <<"-">>, <<"5", "0">>, <<"1", "_", "0">>>>,
      <<root, op, <<"1", "0", "0">>, <<"5", "0">>, IntCutoff>>,
      <<root, op, <<"1", "0", "0">>, <<"5", "0">>>>,
      <<>>,
      <<<<>>, <<>>, <<"a", "b", "c">>, <<"x">>, <<"y">>, <<"z">>>> }

SpanLists == UNION {[1..n -> SpanPool] : n \in 0..MaxSpans}

SpanMessages ==
    [Type : {SimpleRequestResponseMessageType},
     Source : {<<"d", "n", "s", ":", "x">>},
     Destination : {<<"e", "v", "e", "n", "t", ":", "i", "o", "t">>},
     ContentType : {<<>>}, Spans : SpanLists]

(***************************************************************************)
(* Building chains.  A Validators value is a slice: a backing array and a  *)
(* length.  held records, for each chain a caller holds, how it was built  *)
(* and the members it had when it was built.                               *)
(***************************************************************************)

MaxArrays == 4

Members(arrs, h) == SubSeq(arrs[h.arr], 1, h.len)

\* The result of a call that builds a chain: the arrays after it, and the
\* slice it returns.
Built(arrs, slice) == [arrays |-> arrs, slice |-> slice]

\* The Validators literal of SpecValidators: a fresh array.
NewValidators(arrs, vs) ==
    Built(Append(arrs, vs), [arr |-> Len(arrs) + 1, len |-> Len(vs)])

\* Validators.AddFunc: a new chain of the members of h and then vf; h and
\* every other chain stay as they are.
AddFuncInPlace(arrs, h, vf) ==
    Built([arrs EXCEPT ![h.arr] = SubSeq(@, 1, h.len) \o vf],
          [arr |-> h.arr, len |-> h.len + Len(vf)])

AddFunc(arrs, h, vf) ==
    Built(Append(arrs, Members(arrs, h) \o vf),
          [arr |-> Len(arrs) + 1, len |-> h.len + Len(vf)])

errRegistration == Error("errRegistration", <<>>, "nil")

\* What SimpleEventValidators and SimpleResponseRequestValidators append to
\* the spec chain.
SimpleEventAddedWithSpans == <<"SimpleEventTypeValidator", "SpansValidator">>

SimpleEventAdded == <<"SimpleEventTypeValidator">>

SimpleResponseRequestAdded == <<"SimpleResponseRequestTypeValidator", "SpansValidator">>

\* multierr.Append of the construction errors, in the order of the calls.
ConstructionErrors(failed) ==
    SelectSeq([i \in 1..Len(failed) |-> IF failed[i] THEN errRegistration ELSE Nil],
              LAMBDA e : e # Nil)

Holding(slice, how, base, added, made, errs) ==
    [arr |-> slice.arr, len |-> slice.len, how |-> how, base |-> base,
     added |-> added, made |-> made, errs |-> errs]

\* A caller builds the spec chain and keeps it.
NewSpecValidators ==
    /\ Len(arrays) < MaxArrays
    /\ LET b == NewValidators(arrays, SpecValidators)
       IN  /\ arrays' = b.arrays
           /\ held' = Append(held, Holding(b.slice, "SpecValidators", 0, <<>>,
                                           SpecValidators, <<>>))
    /\ UNCHANGED <<locVars, msgVars, telVars, epVars>>

AddFuncArguments ==
    {<<>>, SimpleEventAdded, SimpleResponseRequestAdded, <<"SpansValidator">>}

\* A caller extends a chain it holds: held[i].AddFunc(vf...)
CallAddFunc(i, vf) ==
    /\ Len(arrays) < MaxArrays
    /\ i \in 1..Len(held)
    /\ LET b == AddFunc(arrays, held[i], vf)
       IN  /\ arrays' = b.arrays
           /\ held' = Append(held, Holding(b.slice, "AddFunc", i, vf,
                                           Members(arrays, held[i]) \o vf, <<>>))
    /\ UNCHANGED <<locVars, msgVars, telVars, epVars>>

\* SimpleEventValidators(f, labelNames...): the spec chain, built anew, and
\* the simple event type validator; svFails and stvFails say which of the two
\* constructions returned an error.
SimpleEventValidators(svFails, stvFails) ==
    /\ Len(arrays) + 1 < MaxArrays
    /\ LET sv == NewValidators(arrays, SpecValidators)
           b  == AddFunc(sv.arrays, sv.slice, SimpleEventAdded)
       IN  /\ arrays' = b.arrays
           /\ held' = Append(held, Holding(b.slice, "SimpleEventValidators", 0,
                                           SimpleEventAdded,
                                           SpecValidators \o SimpleEventAdded,
                                           ConstructionErrors(<<svFails, stvFails>>)))
    /\ UNCHANGED <<locVars, msgVars, telVars, epVars>>

\* SimpleResponseRequestValidators(f, labelNames...)
SimpleResponseRequestValidators(svFails, stvFails, spvFails) ==
    /\ Len(arrays) + 1 < MaxArrays
    /\ LET sv == NewValidators(arrays, SpecValidators)
           b  == AddFunc(sv.arrays, sv.slice, SimpleResponseRequestAdded)
       IN  /\ arrays' = b.arrays
           /\ held' = Append(held, Holding(b.slice, "SimpleResponseRequestValidators", 0,
                                           SimpleResponseRequestAdded,
                                           SpecValidators \o SimpleResponseRequestAdded,
                                           ConstructionErrors(<<svFails, stvFails, spvFails>>)))
    /\ UNCHANGED <<locVars, msgVars, telVars, epVars>>

(***************************************************************************)
(* Telemetry-wrapped validators                                            *)
(***************************************************************************)

WrapperKinds ==
    {"SimpleResponseRequestTypeValidator", "SimpleEventTypeValidator", "SpansValidator"}

LabelSets == {"partner=a", "partner=b"}

Callers == {"c1", "c2"}

MaxCalls == 2

\* newSimpleEventTypeValidatorErrorTotal and its two siblings: a counter for
\* the label names, and an error when the construction failed (the counter
\* then still counts, but is not registered).
NewErrorTotal(fails) ==
    [m |-> [ls \in LabelSets |-> 0], err |-> IF fails THEN errRegistration ELSE Nil]

\* m.With(ls).Add(amount): one atomic addition to the counter of ls.
CounterAdd(m, ls, amount) == [m EXCEPT ![ls] = @ + amount]

\* NewSimpleResponseRequestTypeValidator, NewSimpleEventTypeValidator and
\* NewSpansValidator: the wrapped validator, and the construction error
\* beside it (failed is bookkeeping: whether the construction failed).
NewMetricValidator(kind, fails) ==
    [wraps |-> kind, err |-> NewErrorTotal(fails).err, failed |-> fails]

\* if err != nil { m.With(ls).Add(1.0) }: what the wrapper adds for err.
WrapperAddsAlways(err) == 1

WrapperAdds(err) == IF err # <<>> THEN 1 ELSE 0

\* return err
WrapperSwallows(err) == <<>>

WrapperReturns(err) == err

Idle ==
    [pc |-> "idle", kind |-> "SpansValidator", m |-> <<>>, ls |-> "partner=a",
     err |-> <<>>, ret |-> <<>>, calls |-> 0]

RECURSIVE SumCalls(_, _)
SumCalls(cs, among) ==
    IF among = {} THEN 0
    ELSE LET c == CHOOSE x \in among : TRUE
         IN  cs[c].calls + SumCalls(cs, among \ {c})

\* A simple event without spans, and a simple request with a span that lacks
\* its status: each wrapped validator passes one and fails the other.
TelemetryMessages ==
    { [Type |-> SimpleEventMessageType, Source |-> <<"d", "n", "s", ":", "x">>,
       Destination |-> <<"e", "v", "e", "n", "t", ":", "i", "o", "t">>,
       ContentType |-> <<>>, Spans |-> <<>>],
      [Type |-> SimpleRequestResponseMessageType, Source |-> <<"d", "n", "s", ":", "x">>,
       Destination |-> <<"e", "v", "e", "n", "t", ":", "i", "o", "t">>,
       ContentType |-> <<>>,
       Spans |-> <<<<root, op, <<"1", "7">>, <<"5", "0">>>>>>] }

\* Which constructions fail: none, or one of the three (its metric is
\* already registered).
FailureCases ==
    {[k \in WrapperKinds |-> k = f] : f \in WrapperKinds \cup {"none"}}

\* Caller c calls the wrapped validator of kind with message m and labels ls;
\* the wrapper runs the validator it wraps.
WrapperRuns(c, kind, m, ls) ==
    /\ callers[c].pc \in {"idle", "returned"}
    /\ SumCalls(callers, Callers) < MaxCalls
    /\ \E err \in Member(kind, m) :
          /\ callers' = [callers EXCEPT ![c] =
                [pc |-> "ran", kind |-> kind, m |-> m, ls |-> ls, err |-> err,
                 ret |-> <<>>, calls |-> @.calls + 1]]
          /\ failedCalls' = [failedCalls EXCEPT ![kind][ls] =
                IF err # <<>> THEN @ + 1 ELSE @]
    /\ UNCHANGED <<wrappers, counter, locVars, msgVars, chainVars, epVars>>

\* The wrapper counts the failure, if there was one.
WrapperCounts(c) ==
    /\ callers[c].pc = "ran"
    /\ counter' = [counter EXCEPT ![callers[c].kind] =
          CounterAdd(@, callers[c].ls, WrapperAdds(callers[c].err))]
    /\ callers' = [callers EXCEPT ![c].pc = "counted"]
    /\ UNCHANGED <<wrappers, failedCalls, locVars, msgVars, chainVars, epVars>>

\* The wrapper returns to its caller.
WrapperReturn(c) ==
    /\ callers[c].pc = "counted"
    /\ callers' = [callers EXCEPT ![c].pc = "returned",
                                  ![c].ret = WrapperReturns(callers[c].err)]
    /\ UNCHANGED <<wrappers, counter, failedCalls, locVars, msgVars, chainVars, epVars>>

(***************************************************************************)
(* The wrpendpoint adapter                                                 *)
(***************************************************************************)

MaxServed == 2

Contexts == {"background", "foo=bar"}

Value(type, contents) == [type |-> type, contents |-> contents]

NilValue == Value("nil", "")

Requests  == {Value("Request", "request"), Value("Request", "other")}
Responses == {Value("Response", "response")}

\* What a caller may hand to an endpoint, and what a service or an endpoint
\* may be set up to return.
Arguments == Requests \cup {Value("string", "request")}
Returns   == Responses \cup {NilValue, Value("string", "response")}
ServiceErrors == {"nil", "boom"}

Result(response, err, panicked, calls) ==
    [response |-> response, err |-> err, panicked |-> panicked, calls |-> calls]

Call(who, ctx, value) == [who |-> who, ctx |-> ctx, value |-> value]

\* mockService.ServeWRP: the call is recorded; the first return value set up
\* is returned if it is a Response, nil otherwise, with the error set up.
ServeWRP(svc, ctx, r) ==
    Result(IF svc.response.type = "Response" THEN svc.response ELSE NilValue,
           svc.err, FALSE, <<Call("service", ctx, r)>>)

\* The endpoint of TestWrap: it records that it was called, and with what, and
\* returns what it was set up to return.
Endpoint(svc, ctx, value) ==
    Result(svc.response, svc.err, FALSE, <<Call("endpoint", ctx, value)>>)

Panic == Result(NilValue, "nil", TRUE, <<>>)

\* A value can stand where a Request (a Response) is expected.
AssignableTo(value, type) == value.type = type \/ value = NilValue

\* New(s): the endpoint that hands its context and its value, as a Request,
\* to the service and returns the two results of the service.
NewDropsError(svc, ctx, value) ==
    IF ~AssignableTo(value, "Request") THEN Panic
    ELSE [ServeWRP(svc, ctx, value) EXCEPT !.err = "nil"]

New(svc, ctx, value) ==
    IF ~AssignableTo(value, "Request") THEN Panic
    ELSE ServeWRP(svc, ctx, value)

\* Wrap(e).ServeWRP: what the endpoint returned, its first result as a Response.
FromEndpoint(res) ==
    IF res.panicked \/ ~AssignableTo(res.response, "Response")
    THEN [Panic EXCEPT !.calls = res.calls]
    ELSE res

\* Wrap(endpoint).ServeWRP(ctx, r), for the endpoint of TestWrap.
Wrap(svc, ctx, r) == FromEndpoint(Endpoint(svc, ctx, r))

\* Wrap(New(s)).ServeWRP(ctx, r)
WrapNew(svc, ctx, r) == FromEndpoint(New(svc, ctx, r))

NoReply == [via |-> "none", ctx |-> "background", value |-> NilValue, result |-> Panic]

Returned(via, ctx, value, result) ==
    /\ Len(served) < MaxServed
    /\ served' = served \o result.calls
    /\ reply' = [via |-> via, ctx |-> ctx, value |-> value, result |-> result]
    /\ UNCHANGED <<service, locVars, msgVars, chainVars, telVars>>

\* s.ServeWRP(ctx, r)
CallService(ctx, r) == Returned("service", ctx, r, ServeWRP(service, ctx, r))

\* New(s)(ctx, value)
CallNew(ctx, value) == Returned("New", ctx, value, New(service, ctx, value))

\* Wrap(endpoint).ServeWRP(ctx, r)
CallWrap(ctx, r) == Returned("Wrap", ctx, r, Wrap(service, ctx, r))

\* Wrap(New(s)).ServeWRP(ctx, r)
CallWrapNew(ctx, r) == Returned("WrapNew", ctx, r, WrapNew(service, ctx, r))

(***************************************************************************)
(* Specifications                                                          *)
(***************************************************************************)

LocIdle ==
    /\ locator = <<>>
    /\ verdict = Pending
    /\ edits = 0

MsgIdle ==
    /\ msg = [Type |-> SimpleEventMessageType, Source |-> <<>>, Destination |-> <<>>,
              ContentType |-> <<>>, Spans |-> <<>>]
    /\ outcome = NotRun

ChainInit ==
    /\ arrays = <<>>
    /\ held = <<>>

\* The three wrapped validators are constructed; fails says which
\* constructions returned an error.
TelInit(fails) ==
    /\ wrappers = [k \in WrapperKinds |-> NewMetricValidator(k, fails[k])]
    /\ counter = [k \in WrapperKinds |-> NewErrorTotal(fails[k]).m]
    /\ callers = [c \in Callers |-> Idle]
    /\ failedCalls = [k \in WrapperKinds |-> [ls \in LabelSets |-> 0]]

TelIdle == TelInit([k \in WrapperKinds |-> FALSE])

EpInit(svc) ==
    /\ service = svc
    /\ served = <<>>
    /\ reply = NoReply

EpIdle == EpInit([response |-> NilValue, err |-> "nil"])

\* The field validators and the spec chain on one message.
Init ==
    /\ msg \in Messages
    /\ outcome = NotRun
    /\ LocIdle /\ ChainInit /\ TelIdle /\ EpIdle

Next ==
    \/ CallUTF8Validator
    \/ CallMessageTypeValidator
    \/ CallSourceValidator
    \/ CallDestinationValidator
    \/ CallSpecValidators

Spec == Init /\ [][Next]_vars

\* The spans validator on one message.
SpansInit ==
    /\ msg \in SpanMessages
    /\ outcome = NotRun
    /\ LocIdle /\ ChainInit /\ TelIdle /\ EpIdle

SpansNext == CallSpansValidator

SpecSpans == SpansInit /\ [][SpansNext]_vars

\* Mac locators, edited and validated.
MacInit ==
    /\ locator \in MacSeeds
    /\ verdict = Pending
    /\ edits = 0
    /\ MsgIdle /\ ChainInit /\ TelIdle /\ EpIdle

SpecMac == MacInit /\ [][MacNext]_vars

\* Locators of every shape, validated.
LocatorInit ==
    /\ locator \in LocatorTexts
    /\ verdict = Pending
    /\ edits = 0
    /\ MsgIdle /\ ChainInit /\ TelIdle /\ EpIdle

SpecLocator == LocatorInit /\ [][LocatorNext]_vars

\* Chains built and extended.
ChainsInit == LocIdle /\ MsgIdle /\ ChainInit /\ TelIdle /\ EpIdle

ChainsNext ==
    \/ NewSpecValidators
    \/ \E i \in 1..Len(held), vf \in AddFuncArguments : CallAddFunc(i, vf)
    \/ \E svFails, stvFails \in BOOLEAN : SimpleEventValidators(svFails, stvFails)
    \/ \E svFails, stvFails, spvFails \in BOOLEAN :
          SimpleResponseRequestValidators(svFails, stvFails, spvFails)

SpecChains == ChainsInit /\ [][ChainsNext]_vars

\* Callers of the telemetry-wrapped validators, interleaved.
TelemetryInit ==
    /\ \E fails \in FailureCases : TelInit(fails)
    /\ LocIdle /\ MsgIdle /\ ChainInit /\ EpIdle

TelemetryNext ==
    \/ \E c \in Callers, kind \in WrapperKinds, m \in TelemetryMessages, ls \in LabelSets :
          WrapperRuns(c, kind, m, ls)
    \/ \E c \in Callers : WrapperCounts(c)
    \/ \E c \in Callers : WrapperReturn(c)

SpecTelemetry == TelemetryInit /\ [][TelemetryNext]_vars

\* Calls through the wrpendpoint adapter.
EndpointInit ==
    /\ \E response \in Returns, err \in ServiceErrors :
          EpInit([response |-> response, err |-> err])
    /\ LocIdle /\ MsgIdle /\ ChainInit /\ TelIdle

EndpointNext ==
    \/ \E ctx \in Contexts, r \in Requests : CallService(ctx, r)
    \/ \E ctx \in Contexts, value \in Arguments : CallNew(ctx, value)
    \/ \E ctx \in Contexts, r \in Requests : CallWrap(ctx, r)
    \/ \E ctx \in Contexts, r \in Requests : CallWrapNew(ctx, r)

SpecEndpoint == EndpointInit /\ [][EndpointNext]_vars

(***************************************************************************)
(* Properties of the validators and the chains                             *)
(***************************************************************************)

\* C1: the spec chain runs its four members in order and reports every
\* failure: the combined error is the list of the non-nil results of the UTF8,
\* message type, source and destination validators, in that order; it is nil
\* iff all four returned nil; and a message of type 0 with source "bogus"
\* yields both the invalid-message-type and the invalid-source error.
C1_EveryMemberReported ==
    outcome.by = "SpecValidators" =>
        LET results == <<UTF8Validator(msg), MessageTypeValidator(msg),
                         SourceValidator(msg), DestinationValidator(msg)>>
        IN  /\ outcome.errs = SelectSeq(results, LAMBDA e : e # Nil)
            /\ outcome.errs = <<>> <=> \A i \in 1..Len(results) : results[i] = Nil
            /\ (msg.Type = 0 /\ msg.Source = bogus) =>
                  \E i, j \in 1..Len(outcome.errs) :
                     /\ i < j
                     /\ outcome.errs[i].kind = "ErrorInvalidMessageType"
                     /\ outcome.errs[j].kind = "ErrorInvalidSource"

\* A message of type 0 with source "bogus" on which all four members fail.
C1_Witness ==
    /\ outcome.by = "SpecValidators"
    /\ msg.Type = 0
    /\ msg.Source = bogus
    /\ Len(outcome.errs) = Len(SpecValidators)

\* C8: the message type validator fails exactly for a type below
\* Invalid0MessageType, above lastMessageType or equal to one of the three
\* reserved values, and passes exactly the types strictly between
\* Invalid1MessageType and lastMessageType.
C8_MessageTypeRange ==
    outcome.by = "MessageTypeValidator" =>
        /\ outcome.errs = <<ErrorInvalidMessageType>> <=>
              \/ msg.Type < Invalid0MessageType
              \/ msg.Type > lastMessageType
              \/ msg.Type \in {Invalid0MessageType, Invalid1MessageType, lastMessageType}
        /\ outcome.errs = <<>> <=>
              (Invalid1MessageType < msg.Type /\ msg.Type < lastMessageType)

\* The upper sentinel itself is refused.
C8_Witness ==
    /\ outcome.by = "MessageTypeValidator"
    /\ msg.Type = lastMessageType
    /\ outcome.errs = <<ErrorInvalidMessageType>>

\* C2: every chain a caller holds still has exactly the members it was built
\* with, in order, whatever was built from it since: a spec chain has the four
\* spec validators, a chain AddFunc returned has the members of its base and
\* then what was added, and a chain of one message category starts with the
\* spec validators and holds no validator added for the other category.
C2_ChainsKeepTheirMembers ==
    \A i \in 1..Len(held) :
        LET members == Members(arrays, held[i])
        IN  /\ members = held[i].made
            /\ held[i].how = "SpecValidators" => members = SpecValidators
            /\ held[i].how = "AddFunc" =>
                  members = Members(arrays, held[held[i].base]) \o held[i].added
            /\ held[i].how = "SimpleEventValidators" =>
                  /\ SubSeq(members, 1, Len(SpecValidators)) = SpecValidators
                  /\ "SimpleResponseRequestTypeValidator" \notin Range(members)
                  /\ "SpansValidator" \notin Range(members)
            /\ held[i].how = "SimpleResponseRequestValidators" =>
                  /\ SubSeq(members, 1, Len(SpecValidators)) = SpecValidators
                  /\ "SimpleEventTypeValidator" \notin Range(members)

\* Two different chains built by AddFunc from the same base.
C2_Witness ==
    \E i, j \in 1..Len(held) :
        /\ held[i].how = "AddFunc" /\ held[j].how = "AddFunc"
        /\ held[i].base = held[j].base
        /\ held[i].added # <<>> /\ held[j].added # <<>>
        /\ held[i].added # held[j].added

(***************************************************************************)
(* Properties of the spans validator                                       *)
(***************************************************************************)

Malformed(s) == Len(s) # 5

FieldNames == <<"parent", "name", "start time", "duration", "status">>

\* Position i (from 0) of a span of length 5 breaks its rule.
Violates(s, i) ==
    IF i \in {0, 1} THEN s[i + 1] = <<>> ELSE Atoi(s[i + 1]) # "nil"

ErrorsAbout(errs, k) == SelectSeq(errs, LAMBDA e : e.index = k)

ErrorsAboutField(errs, k, i) ==
    SelectSeq(errs, LAMBDA e : e.index = k /\ e.field = FieldNames[i + 1])

\* C5: a span whose length is not 5 gets exactly one error, the
\* invalid-span-length error, and no invalid-span-format error; the spans
\* after it are still checked, and their errors come after its error.
C5_MalformedSpanLength ==
    outcome.by = "SpansValidator" =>
        \A k \in 1..Len(msg.Spans) :
            Malformed(msg.Spans[k]) =>
                /\ ErrorsAbout(outcome.errs, k) = <<ErrorInvalidSpanLength(k)>>
                /\ \A n \in (k + 1)..Len(msg.Spans) :
                      (~Malformed(msg.Spans[n]) /\ \E i \in 0..4 : Violates(msg.Spans[n], i))
                         => ErrorsAbout(outcome.errs, n) # <<>>
                /\ \A a, b \in 1..Len(outcome.errs) :
                      (outcome.errs[a].index = k /\ outcome.errs[b].index > k) => a < b

\* A span of the wrong length, that holds fields that would fail, before a
\* span of length 5 with a bad field.
C5_Witness ==
    /\ outcome.by = "SpansValidator"
    /\ Len(msg.Spans) = 2
    /\ Len(msg.Spans[1]) = 6
    /\ ~Malformed(msg.Spans[2])
    /\ Len(ErrorsAbout(outcome.errs, 2)) >= 2

\* C10: a span of length 5 gets one invalid-span-format error for each
\* position that breaks its rule (parent and name empty; start time, duration
\* and status not an integer), naming the field and quoting the value, and
\* none for the others, in whatever order the positions are visited; the
\* number of errors is the number of malformed spans plus the number of
\* violating positions; the result is nil iff nothing is violated.
C10_EveryViolationReported ==
    outcome.by = "SpansValidator" =>
        LET spans == msg.Spans
            bad   == {k \in 1..Len(spans) : Malformed(spans[k])}
            viol  == {p \in (1..Len(spans)) \X (0..4) :
                        ~Malformed(spans[p[1]]) /\ Violates(spans[p[1]], p[2])}
        IN  /\ \A k \in 1..Len(spans), i \in 0..4 :
                  ~Malformed(spans[k]) =>
                      LET es == ErrorsAboutField(outcome.errs, k, i)
                      IN  IF Violates(spans[k], i)
                          THEN /\ Len(es) = 1
                               /\ es[1].kind = "ErrorInvalidSpanFormat"
                               /\ es[1].text = spans[k][i + 1]
                               /\ es[1].span = spans[k]
                          ELSE es = <<>>
            /\ Len(outcome.errs) = Cardinality(bad) + Cardinality(viol)
            /\ outcome.errs = <<>> <=> (bad = {} /\ viol = {})

Position(name) == CHOOSE i \in 0..4 : FieldNames[i + 1] = name

\* Two spans with violations, the errors of one of them not in the order of
\* the positions.
C10_Witness ==
    /\ outcome.by = "SpansValidator"
    /\ Len(msg.Spans) = 2
    /\ ErrorsAbout(outcome.errs, 1) # <<>>
    /\ \E a, b \in 1..Len(outcome.errs) :
          /\ a < b
          /\ outcome.errs[a].index = 2 /\ outcome.errs[b].index = 2
          /\ outcome.errs[a].kind = "ErrorInvalidSpanFormat"
          /\ outcome.errs[b].kind = "ErrorInvalidSpanFormat"
          /\ Position(outcome.errs[a].field) > Position(outcome.errs[b].field)

(***************************************************************************)
(* Properties of the telemetry wrappers                                    *)
(***************************************************************************)

NotYetCounted(k, ls) ==
    Cardinality({c \in Callers :
        /\ callers[c].pc = "ran"
        /\ callers[c].kind = k /\ callers[c].ls = ls
        /\ callers[c].err # <<>>})

\* C9: the counter of a label set is the number of calls with that label set
\* whose wrapped validator failed, less those that are still before their
\* increment; once no call is in progress the two are equal.
C9_CounterCountsFailures ==
    \A k \in WrapperKinds, ls \in LabelSets :
        /\ counter[k][ls] + NotYetCounted(k, ls) = failedCalls[k][ls]
        /\ (\A c \in Callers : callers[c].pc \in {"idle", "returned"}) =>
              counter[k][ls] = failedCalls[k][ls]

\* Two simultaneous failing calls with the same label set, both counted, and
\* a counter of 2.
C9_Witness ==
    \E k \in WrapperKinds, ls \in LabelSets :
        /\ counter[k][ls] = 2
        /\ \A c \in Callers :
              /\ callers[c].pc = "counted"
              /\ callers[c].kind = k /\ callers[c].ls = ls

(***************************************************************************)
(* Properties of the adapter                                               *)
(***************************************************************************)

\* C4: a call through Wrap(New(s)) returns what s returns for the same
\* context and request, calling s exactly once with them; New(s) alone calls s
\* exactly once with the context and the request; Wrap(e) alone calls e
\* exactly once with them and returns its results.
C4_AdapterIsTransparent ==
    /\ reply.via = "WrapNew" =>
          /\ ~reply.result.panicked
          /\ reply.result.calls = <<Call("service", reply.ctx, reply.value)>>
          /\ reply.result.response = ServeWRP(service, reply.ctx, reply.value).response
          /\ reply.result.err = service.err
    /\ (reply.via = "New" /\ reply.value \in Requests) =>
          /\ ~reply.result.panicked
          /\ reply.result.calls = <<Call("service", reply.ctx, reply.value)>>
          /\ reply.result.response = ServeWRP(service, reply.ctx, reply.value).response
          /\ reply.result.err = service.err
    /\ reply.via = "Wrap" =>
          /\ reply.result.calls = <<Call("endpoint", reply.ctx, reply.value)>>
          /\ service.response \in Responses \cup {NilValue} =>
                /\ ~reply.result.panicked
                /\ reply.result.response = service.response
                /\ reply.result.err = service.err
    /\ reply.via # "none" =>
          /\ Len(served) >= Len(reply.result.calls)
          /\ SubSeq(served, Len(served) - Len(reply.result.calls) + 1, Len(served))
                = reply.result.calls

\* A service that fails, called through Wrap(New(s)) a second time.
C4_Witness ==
    /\ reply.via = "WrapNew"
    /\ reply.result.err = "boom"
    /\ reply.ctx = "foo=bar"
    /\ Len(served) = 2
    /\ served[1].who = "service" /\ served[2].who = "service"

=============================================================================
